---- MODULE Spec2Model ----
(***************************************************************************)
(* A model of the typescript2 evaluator (src/src/main.rs): the tagged      *)
(* numeric Value with its five binary operations, the TS2G evaluator with  *)
(* its variable map and evaluation stack, and the statement loop of main.  *)
(*                                                                         *)
(* Two specifications:                                                     *)
(*   Spec       the statement loop of main over a parsed program;          *)
(*   SpecValue  the five binary operations of Value applied to operands of *)
(*              every kind.                                                *)
(***************************************************************************)
EXTENDS Integers, Sequences, FiniteSets, TLC

VARIABLES
    program,        \* main: the parsed statements (never mutated)
    index,          \* main: position of the for loop, 1-based
    vars,           \* TS2G.vars : HashMap<String, Value>
    stack,          \* TS2G.stack : Vec<Value>
    out,            \* stdout, one record per println!
    pc,             \* "running" | "done" | "panicked"
    panic,          \* which panic ended the run, "none" when none did
    prev,           \* history: the evaluator state before the last statement
    overflowChecks, \* build profile: TRUE = debug (overflow panics), FALSE = release (wraps)
    lhs,            \* SpecValue: left operand
    rhs,            \* SpecValue: right operand
    applied,        \* SpecValue: the operation applied, "none" before
    res             \* SpecValue: its outcome

allVars == <<program, index, vars, stack, out, pc, panic, prev, overflowChecks,
             lhs, rhs, applied, res>>

(***************************************************************************)
(* Bounds of the model.                                                    *)
(***************************************************************************)
\* number literals of the generated programs are 0..MaxLit
MaxLit == 2
\* the generated short programs have at most MaxStmts statements
MaxStmts == 3
\* integer payloads of the operand samples of SpecValue are 0..MaxPayload
\* (and their negations for the signed kinds)
MaxPayload == 2

\* The model's exact floating-point values are the dyadic rationals n/d with
\* |n| <= ExactMax and d <= ExactMax.  Every such value is an f64 (and an f32),
\* and an IEEE operation whose real result is such a value returns exactly it;
\* every other result stays an uninterpreted term fl(op, l, r).
ExactMax == 2 ^ 15

(***************************************************************************)
(* NumType and the payload union Number.                                   *)
(***************************************************************************)
NumType == {"U8", "I8", "U16", "I16", "U32", "I32", "U64", "I64", "F32", "F64"}

IsFloat(t) == t \in {"F32", "F64"}
IsSigned(t) == t \in {"I8", "I16", "I32", "I64"}
Bits(t) ==
    CASE t \in {"U8", "I8"} -> 8
      [] t \in {"U16", "I16"} -> 16
      [] t \in {"U32", "I32", "F32"} -> 32
      [] t \in {"U64", "I64", "F64"} -> 64

\* One payload is one record; c says how to read it:
\*   "int"      the integer n                        (integer kinds)
\*   "num"      the finite float n/d, +0 when n = 0  (float kinds)
\*   "negzero" "inf" "neginf" "nan"                  (float kinds)
\*   "PI" "E"   the two f64 constants
\*   "fl"       the float an operation returned, as the term t = <<op, l, r>>
Payload(c, n, d, t) == [c |-> c, n |-> n, d |-> d, t |-> t]
IntP(x) == Payload("int", x, 1, <<>>)
FSpecial(c) == Payload(c, 0, 1, <<>>)
FNum(n, d) == Payload("num", n, d, <<>>)
Fl(o, a, b) == Payload("fl", 0, 1, <<o, a, b>>)
PosZero == FNum(0, 1)
NegZero == FSpecial("negzero")
Inf == FSpecial("inf")
NegInf == FSpecial("neginf")
NaN == FSpecial("nan")
ConstPI == FSpecial("PI")
ConstE == FSpecial("E")
One == FNum(1, 1)

MkValue(t, v) == [t |-> t, v |-> v]
NoValue == MkValue("none", IntP(0))

\* The outcome of an operation that can panic.
Ok(val) == [panic |-> "none", val |-> val]
Panicked(why) == [panic |-> why, val |-> NoValue]

Abs(x) == IF x < 0 THEN -x ELSE x
Sign(x) == IF x < 0 THEN -1 ELSE IF x = 0 THEN 0 ELSE 1

RECURSIVE GCD(_, _)
GCD(a, b) == IF b = 0 THEN a ELSE GCD(b, a % b)

RECURSIVE IsPow2(_)
IsPow2(d) == IF d = 1 THEN TRUE ELSE IF d % 2 # 0 THEN FALSE ELSE IsPow2(d \div 2)

\* TooBig stands for a magnitude the model does not compute: one above ExactMax
\* that is still to be multiplied.
TooBig == 0 - 1

\* base^e for naturals base and e, or TooBig.
RECURSIVE PowAcc(_, _, _)
PowAcc(base, e, acc) ==
    IF e = 0 THEN acc
    ELSE IF acc > ExactMax \/ (base > ExactMax /\ acc > 1) THEN TooBig
    ELSE PowAcc(base, e - 1, acc * base)
PowMag(base, e) ==
    IF e = 0 \/ base = 1 THEN 1
    ELSE IF base = 0 THEN 0
    ELSE PowAcc(base, e, 1)

\* integer division truncating toward zero, as Rust's / on integers
TruncDiv(a, b) == Sign(a) * Sign(b) * (Abs(a) \div Abs(b))

(***************************************************************************)
(* IEEE arithmetic on the float payloads (the f32/f64 arms of add, sub,    *)
(* mul, div and powf).                                                     *)
(***************************************************************************)
IsNaN(p) == p.c = "nan"
IsOpaque(p) == p.c \in {"PI", "E", "fl"}
IsInf(p) == p.c \in {"inf", "neginf"}
IsZero(p) == p.c = "negzero" \/ (p.c = "num" /\ p.n = 0)
IsNeg(p) == p.c \in {"negzero", "neginf"} \/ (p.c = "num" /\ p.n < 0)
SignedZero(neg) == IF neg THEN NegZero ELSE PosZero
SignedInf(neg) == IF neg THEN NegInf ELSE Inf

\* The float of the nonzero real n/d (d > 0): itself when the model holds it
\* exactly, otherwise the uninterpreted term.
FReal(n, d, term) ==
    LET g == GCD(Abs(n), d)
        nn == n \div g
        dd == d \div g
    IN  IF IsPow2(dd) /\ Abs(nn) <= ExactMax /\ dd <= ExactMax
        THEN FNum(nn, dd)
        ELSE term

FNeg(a) ==
    CASE a.c = "num" -> (IF a.n = 0 THEN NegZero ELSE FNum(-a.n, a.d))
      [] a.c = "negzero" -> PosZero
      [] a.c = "inf" -> NegInf
      [] a.c = "neginf" -> Inf
      [] OTHER -> a

FSum(a, b, term) ==
    IF IsNaN(a) \/ IsNaN(b) THEN NaN
    ELSE IF IsOpaque(a) \/ IsOpaque(b) THEN term
    ELSE IF IsInf(a) THEN (IF IsInf(b) /\ a.c # b.c THEN NaN ELSE a)
    ELSE IF IsInf(b) THEN b
    ELSE IF IsZero(a) /\ IsZero(b)
         THEN (IF a.c = "negzero" /\ b.c = "negzero" THEN NegZero ELSE PosZero)
    ELSE IF IsZero(a) THEN b
    ELSE IF IsZero(b) THEN a
    ELSE LET n == a.n * b.d + b.n * a.d
         IN  IF n = 0 THEN PosZero ELSE FReal(n, a.d * b.d, term)

FAdd(a, b) == FSum(a, b, Fl("add", a, b))
FSub(a, b) == FSum(a, FNeg(b), Fl("sub", a, b))

FMul(a, b) ==
    LET neg == IsNeg(a) # IsNeg(b)
    IN  IF IsNaN(a) \/ IsNaN(b) THEN NaN
        ELSE IF IsOpaque(a) \/ IsOpaque(b) THEN Fl("mul", a, b)
        ELSE IF IsInf(a) \/ IsInf(b)
             THEN (IF IsZero(a) \/ IsZero(b) THEN NaN ELSE SignedInf(neg))
        ELSE IF IsZero(a) \/ IsZero(b) THEN SignedZero(neg)
        ELSE FReal(a.n * b.n, a.d * b.d, Fl("mul", a, b))

FDiv(a, b) ==
    LET neg == IsNeg(a) # IsNeg(b)
    IN  IF IsNaN(a) \/ IsNaN(b) THEN NaN
        ELSE IF IsOpaque(a) \/ IsOpaque(b) THEN Fl("div", a, b)
        ELSE IF IsInf(a) THEN (IF IsInf(b) THEN NaN ELSE SignedInf(neg))
        ELSE IF IsInf(b) THEN SignedZero(neg)
        ELSE IF IsZero(b) THEN (IF IsZero(a) THEN NaN ELSE SignedInf(neg))
        ELSE IF IsZero(a) THEN SignedZero(neg)
        ELSE FReal(Sign(b.n) * a.n * b.d, a.d * Abs(b.n), Fl("div", a, b))

\* |a| compared with 1, for a that is neither NaN nor opaque: -1, 0 or 1
MagVsOne(a) ==
    IF IsInf(a) THEN 1
    ELSE IF IsZero(a) THEN -1
    ELSE Sign(Abs(a.n) - a.d)

\* f64::powf
FPow(a, b) ==
    LET term == Fl("pow", a, b)
        bInt == b.d = 1
        bOdd == bInt /\ b.n % 2 = 1
        bPos == b.n > 0
    IN  IF IsZero(b) THEN One
        ELSE IF a = One THEN One
        ELSE IF IsNaN(a) \/ IsNaN(b) THEN NaN
        ELSE IF IsOpaque(a) \/ IsOpaque(b) THEN term
        ELSE IF IsInf(b) THEN
            (IF MagVsOne(a) = 0 THEN One
             ELSE IF (MagVsOne(a) = 1) = (b.c = "inf") THEN Inf ELSE PosZero)
        ELSE IF IsZero(a) THEN
            (IF a.c = "negzero" /\ bOdd
             THEN (IF bPos THEN NegZero ELSE NegInf)
             ELSE (IF bPos THEN PosZero ELSE Inf))
        ELSE IF a.c = "inf" THEN (IF bPos THEN Inf ELSE PosZero)
        ELSE IF a.c = "neginf" THEN
            (IF bPos THEN SignedInf(bOdd) ELSE SignedZero(bOdd))
        ELSE IF ~bInt THEN (IF a.n < 0 THEN NaN ELSE term)
        ELSE LET e == Abs(b.n)
                 pn == PowMag(Abs(a.n), e)
                 pd == PowMag(a.d, e)
                 sg == IF a.n < 0 /\ bOdd THEN -1 ELSE 1
             IN  IF pn = TooBig \/ pd = TooBig THEN term
                 ELSE IF bPos THEN FReal(sg * pn, pd, term)
                 ELSE FReal(sg * pd, pn, term)

\* `as f32` of an f64: exact on the model's exact values
ToF32(p) == IF IsOpaque(p) THEN Fl("f32", p, p) ELSE p

(***************************************************************************)
(* impl Display for Value: the text println! writes.                       *)
(***************************************************************************)
RECURSIVE FracDigits(_, _)
FracDigits(r, d) ==
    IF r = 0 THEN ""
    ELSE ToString((r * 10) \div d) \o FracDigits((r * 10) % d, d)

\* A float the model holds as a term is shown as that term.
RECURSIVE FDisplay(_)
FDisplay(p) ==
    CASE p.c = "num" ->
            (IF p.d = 1 THEN ToString(p.n)
             ELSE (IF p.n < 0 THEN "-" ELSE "")
                  \o ToString(Abs(p.n) \div p.d) \o "."
                  \o FracDigits(Abs(p.n) % p.d, p.d))
      [] p.c = "negzero" -> "-0"
      [] p.c = "inf" -> "inf"
      [] p.c = "neginf" -> "-inf"
      [] p.c = "nan" -> "NaN"
      [] p.c = "PI" -> "3.141592653589793"
      [] p.c = "E" -> "2.718281828459045"
      [] p.c = "fl" -> "fl(" \o p.t[1] \o ", " \o FDisplay(p.t[2]) \o ", "
                            \o FDisplay(p.t[3]) \o ")"

Display(val) == IF IsFloat(val.t) THEN FDisplay(val.v) ELSE ToString(val.v.n)

(***************************************************************************)
(* Integer payloads.  TLC's integers are 32 bits wide, so the bounds of    *)
(* the 8- and 16-bit kinds are computed and reached, and the 32- and       *)
(* 64-bit kinds are kept to operands whose results TLC can hold            *)
(* (WithinModel): for those a result can leave the kind's range only by    *)
(* going below zero in an unsigned kind.                                   *)
(***************************************************************************)
Narrow(t) == Bits(t) <= 16
MinOf(t) == IF IsSigned(t) THEN 0 - 2 ^ (Bits(t) - 1) ELSE 0
MaxOf(t) == IF IsSigned(t) THEN 2 ^ (Bits(t) - 1) - 1 ELSE 2 ^ Bits(t) - 1

InRange(t, x) ==
    IF Narrow(t) THEN MinOf(t) <= x /\ x <= MaxOf(t) ELSE IsSigned(t) \/ x >= 0

\* two's complement wrap-around of the release build
Wrap(t, x) == ((x - MinOf(t)) % (2 ^ Bits(t))) + MinOf(t)

\* + - * on an integer kind: the debug build panics on overflow, the release
\* build wraps
IntArith(t, x) ==
    IF InRange(t, x) THEN Ok(MkValue(t, IntP(x)))
    ELSE IF overflowChecks THEN Panicked("Overflow")
    ELSE Ok(MkValue(t, IntP(Wrap(t, x))))

\* / on an integer kind: both builds panic on a zero divisor and on MIN / -1
IntDiv(t, a, b) ==
    IF b = 0 THEN Panicked("DivideByZero")
    ELSE IF IsSigned(t) /\ b = 0 - 1 /\ Narrow(t) /\ a = MinOf(t) THEN Panicked("Overflow")
    ELSE Ok(MkValue(t, IntP(TruncDiv(a, b))))

\* `as T` of a float: truncates toward zero and saturates at the kind's bounds
Saturate(t, x) ==
    IF Narrow(t) THEN (IF x < MinOf(t) THEN MinOf(t) ELSE IF x > MaxOf(t) THEN MaxOf(t) ELSE x)
    ELSE (IF ~IsSigned(t) /\ x < 0 THEN 0 ELSE x)

\* (a as f64).powf(b as f64) as T on an integer kind
IntPowf(t, a, b) ==
    LET odd == b % 2 = 1
        mag == PowMag(Abs(a), Abs(b))
    IN  IF b >= 0
        THEN (IF mag = TooBig
              THEN (IF a < 0 /\ odd THEN MinOf(t) ELSE MaxOf(t))
              ELSE Saturate(t, IF a < 0 /\ odd THEN 0 - mag ELSE mag))
        ELSE (IF a = 0 THEN MaxOf(t)
              ELSE IF a = 1 THEN 1
              ELSE IF a = 0 - 1 THEN (IF odd THEN 0 - 1 ELSE 1)
              ELSE 0)

(***************************************************************************)
(* impl Add / Sub / Mul / Div for Value, and Value::powf.  Each compares   *)
(* the tags first and panics when they differ, then works on the payloads  *)
(* read under the common tag.                                              *)
(***************************************************************************)
\* mutant: the add arm subtracts
ValueAddAsSub(l, r) ==
    IF l.t # r.t THEN Panicked("TypeMismatch")
    ELSE IF IsFloat(l.t) THEN Ok(MkValue(l.t, FSub(l.v, r.v)))
    ELSE IntArith(l.t, l.v.n - r.v.n)

ValueAdd(l, r) ==
    IF l.t # r.t THEN Panicked("TypeMismatch")
    ELSE IF IsFloat(l.t) THEN Ok(MkValue(l.t, FAdd(l.v, r.v)))
    ELSE IntArith(l.t, l.v.n + r.v.n)

ValueSub(l, r) ==
    IF l.t # r.t THEN Panicked("TypeMismatch")
    ELSE IF IsFloat(l.t) THEN Ok(MkValue(l.t, FSub(l.v, r.v)))
    ELSE IntArith(l.t, l.v.n - r.v.n)

\* mutant: operands of different kinds no longer panic, the left one is returned
ValueMulLenient(l, r) ==
    IF l.t # r.t THEN Ok(l)
    ELSE IF IsFloat(l.t) THEN Ok(MkValue(l.t, FMul(l.v, r.v)))
    ELSE IntArith(l.t, l.v.n * r.v.n)

ValueMul(l, r) ==
    IF l.t # r.t THEN Panicked("TypeMismatch")
    ELSE IF IsFloat(l.t) THEN Ok(MkValue(l.t, FMul(l.v, r.v)))
    ELSE IntArith(l.t, l.v.n * r.v.n)

\* mutant: a zero divisor panics for the floating kinds as it does for integers
ValueDivChecked(l, r) ==
    IF l.t # r.t THEN Panicked("TypeMismatch")
    ELSE IF IsFloat(l.t)
         THEN (IF IsZero(r.v) THEN Panicked("DivideByZero") ELSE Ok(MkValue(l.t, FDiv(l.v, r.v))))
    ELSE IntDiv(l.t, l.v.n, r.v.n)

ValueDiv(l, r) ==
    IF l.t # r.t THEN Panicked("TypeMismatch")
    ELSE IF IsFloat(l.t) THEN Ok(MkValue(l.t, FDiv(l.v, r.v)))
    ELSE IntDiv(l.t, l.v.n, r.v.n)

ValuePowf(l, r) ==
    IF l.t # r.t THEN Panicked("TypeMismatch")
    ELSE IF l.t = "F64" THEN Ok(MkValue(l.t, FPow(l.v, r.v)))
    ELSE IF l.t = "F32" THEN Ok(MkValue(l.t, ToF32(FPow(l.v, r.v))))
    ELSE Ok(MkValue(l.t, IntP(IntPowf(l.t, l.v.n, r.v.n))))

BinOps == {"Exponent", "Multiply", "Divide", "Add", "Sub"}

\* the Value operation each binary node of visit_expr applies
ValueOp(op, l, r) ==
    CASE op = "Exponent" -> ValuePowf(l, r)
      [] op = "Multiply" -> ValueMul(l, r)
      [] op = "Divide" -> ValueDiv(l, r)
      [] op = "Add" -> ValueAdd(l, r)
      [] op = "Sub" -> ValueSub(l, r)

(***************************************************************************)
(* ast.rs: Statement and Expr, as tagged tuples.                           *)
(***************************************************************************)
Number(n) == <<"Number", n>>
Id(id) == <<"Id", id>>
PI == <<"PI">>
E == <<"E">>
Parenthesis(e) == <<"Parenthesis", e>>
Binary(op, l, r) == <<op, l, r>>
Eq(id, e) == <<"Eq", id, e>>

ExprStatement(e) == <<"ExprStatement", e>>
Let(id, t, e) == <<"Let", id, t, e>>
PrintStatement(e) == <<"Print", e>>

\* the expression a statement evaluates
ExprOf(s) == s[Len(s)]

(***************************************************************************)
(* TS2G.  An evaluator state is [vars, stack, out, panic]; once panic is   *)
(* set the run has unwound and nothing more of it executes.                *)
(***************************************************************************)
EvalState(vs, stk, o, p) == [vars |-> vs, stack |-> stk, out |-> o, panic |-> p]

\* TS2G::init
TS2GInit == EvalState(<<>>, <<>>, <<>>, "none")

Abort(st, why) == [st EXCEPT !.panic = why]
Push(st, val) == [st EXCEPT !.stack = Append(@, val)]
Top(st) == st.stack[Len(st.stack)]
Drop(st) == [st EXCEPT !.stack = SubSeq(@, 1, Len(@) - 1)]

\* mutant: a name that is already bound keeps its first value
InsertKeepFirst(vs, id, val) ==
    [n \in (DOMAIN vs) \cup {id} |-> IF n \in DOMAIN vs THEN vs[n] ELSE val]

\* HashMap::insert
Insert(vs, id, val) == [n \in (DOMAIN vs) \cup {id} |-> IF n = id THEN val ELSE vs[n]]

RECURSIVE visit_expr(_, _)

\* Expr::Number
VisitNumber(n, st) == Push(st, MkValue("F64", FNum(n, 1)))

\* mutant: an unbound identifier reads as 0 (unwrap_or a default)
VisitIdDefault(id, st) ==
    IF id \in DOMAIN st.vars THEN Push(st, st.vars[id])
    ELSE Push(st, MkValue("F64", FNum(0, 1)))

\* Expr::Id: vars.get(&id).unwrap()
VisitId(id, st) ==
    IF id \in DOMAIN st.vars THEN Push(st, st.vars[id]) ELSE Abort(st, "UnwrapNone")

\* mutant: PI is pushed as a single-precision value
VisitPISingle(st) == Push(st, MkValue("F32", ConstPI))

\* Expr::PI, Expr::E
VisitPI(st) == Push(st, MkValue("F64", ConstPI))
VisitE(st) == Push(st, MkValue("F64", ConstE))

\* mutant: the parenthesised expression is evaluated on a copy of the variables
VisitParenthesisScoped(e, st) == [visit_expr(e, st) EXCEPT !.vars = st.vars]

\* Expr::Parenthesis
VisitParenthesis(e, st) == visit_expr(e, st)

\* Expr::Exponent, Multiply, Divide, Add, Sub: visit l, visit r, pop r, pop l,
\* push the result of the Value operation
PushOutcome(st, o) == IF o.panic # "none" THEN Abort(st, o.panic) ELSE Push(st, o.val)
PopLeft(op, rv, st) ==
    IF Len(st.stack) = 0 THEN Abort(st, "UnwrapNone")
    ELSE PushOutcome(Drop(st), ValueOp(op, Top(st), rv))
PopRight(op, st) ==
    IF st.panic # "none" THEN st
    ELSE IF Len(st.stack) = 0 THEN Abort(st, "UnwrapNone")
    ELSE PopLeft(op, Top(st), Drop(st))
VisitRight(r, st) == IF st.panic # "none" THEN st ELSE visit_expr(r, st)
VisitBinary(op, l, r, st) == PopRight(op, VisitRight(r, visit_expr(l, st)))

\* mutant: the assignment pops the value it stores
InsertLastPop(id, st) ==
    IF st.panic # "none" THEN st
    ELSE IF Len(st.stack) = 0 THEN Abort(st, "UnwrapNone")
    ELSE IF id \in DOMAIN st.vars THEN Drop([st EXCEPT !.vars = Insert(@, id, Top(st))])
    ELSE Abort([st EXCEPT !.vars = Insert(@, id, Top(st))], "UnwrapNone")

\* Expr::Eq: visit expr, read stack.last(), vars.insert(id, *v).unwrap().
\* insert returns the value the key had, None for a new key, and the unwrap
\* of that None panics after the map has the new entry.
InsertLast(id, st) ==
    IF st.panic # "none" THEN st
    ELSE IF Len(st.stack) = 0 THEN Abort(st, "UnwrapNone")
    ELSE IF id \in DOMAIN st.vars THEN [st EXCEPT !.vars = Insert(@, id, Top(st))]
    ELSE Abort([st EXCEPT !.vars = Insert(@, id, Top(st))], "UnwrapNone")
\* mutant: the assignment yields the value the name had before it
InsertLastYieldOld(id, st) ==
    IF st.panic # "none" THEN st
    ELSE IF Len(st.stack) = 0 THEN Abort(st, "UnwrapNone")
    ELSE IF id \in DOMAIN st.vars
         THEN Push(Drop([st EXCEPT !.vars = Insert(@, id, Top(st))]), st.vars[id])
    ELSE Abort([st EXCEPT !.vars = Insert(@, id, Top(st))], "UnwrapNone")
VisitEqYieldOld(id, e, st) == InsertLastYieldOld(id, visit_expr(e, st))

VisitEq(id, e, st) == InsertLast(id, visit_expr(e, st))

visit_expr(expr, st) ==
    CASE expr[1] = "Number" -> VisitNumber(expr[2], st)
      [] expr[1] = "Id" -> VisitId(expr[2], st)
      [] expr[1] = "PI" -> VisitPI(st)
      [] expr[1] = "E" -> VisitE(st)
      [] expr[1] = "Parenthesis" -> VisitParenthesis(expr[2], st)
      [] expr[1] \in BinOps -> VisitBinary(expr[1], expr[2], expr[3], st)
      [] expr[1] = "Eq" -> VisitEq(expr[2], expr[3], st)

\* the line println! appends to stdout
PrintLine(val) == [by |-> "print", text |-> Display(val)]

\* mutant: an expression statement echoes its value
PopDiscardEcho(st) ==
    IF st.panic # "none" THEN st
    ELSE IF Len(st.stack) = 0 THEN Abort(st, "UnwrapNone")
    ELSE [Drop(st) EXCEPT !.out = Append(@, PrintLine(Top(st)))]

\* Statement::ExprStatement: visit_expr, then stack.pop().unwrap()
PopDiscard(st) ==
    IF st.panic # "none" THEN st
    ELSE IF Len(st.stack) = 0 THEN Abort(st, "UnwrapNone")
    ELSE Drop(st)
VisitExprStatement(e, st) == PopDiscard(visit_expr(e, st))

\* Statement::Let: visit_expr, pop, vars.insert(id, res); the declared type
\* _t is not used and the value insert returns is dropped
PopInsert(id, st) ==
    IF st.panic # "none" THEN st
    ELSE IF Len(st.stack) = 0 THEN Abort(st, "UnwrapNone")
    ELSE [Drop(st) EXCEPT !.vars = Insert(@, id, Top(st))]
\* mutant: the popped value is stored under the declared kind of the let
PopInsertTyped(id, t, st) ==
    IF st.panic # "none" THEN st
    ELSE IF Len(st.stack) = 0 THEN Abort(st, "UnwrapNone")
    ELSE [Drop(st) EXCEPT !.vars =
             Insert(@, id, MkValue(IF t = "u64" THEN "U64" ELSE "F64", Top(st).v))]
VisitLetTyped(id, t, e, st) == PopInsertTyped(id, t, visit_expr(e, st))

VisitLet(id, t, e, st) == PopInsert(id, visit_expr(e, st))

\* mutant: print also binds the name "_" to the value it printed
PopPrintRemember(st) ==
    IF st.panic # "none" THEN st
    ELSE IF Len(st.stack) = 0 THEN Abort(st, "UnwrapNone")
    ELSE [Drop(st) EXCEPT !.out = Append(@, PrintLine(Top(st))),
                          !.vars = Insert(@, "_", Top(st))]

\* Statement::Print: visit_expr, then println!("{}", stack.pop().unwrap())
PopPrint(st) ==
    IF st.panic # "none" THEN st
    ELSE IF Len(st.stack) = 0 THEN Abort(st, "UnwrapNone")
    ELSE [Drop(st) EXCEPT !.out = Append(@, PrintLine(Top(st)))]
VisitPrint(e, st) == PopPrint(visit_expr(e, st))

visit_statement(s, st) ==
    CASE s[1] = "ExprStatement" -> VisitExprStatement(s[2], st)
      [] s[1] = "Let" -> VisitLet(s[2], s[3], s[4], st)
      [] s[1] = "Print" -> VisitPrint(s[2], st)

(***************************************************************************)
(* grammar/mod.rs: the visitor over the ANTLR parse tree.  A context is a   *)
(* tagged tuple of what the visitor reads from it: its tokens' texts and    *)
(* its child expressions.  Value and its operations are repeated in         *)
(* grammar/mod.rs line for line as in main.rs, so ValueOp stands for both.  *)
(***************************************************************************)
NumberContext(int) == <<"NumberContext", int>>
IdContext(id) == <<"IdContext", id>>
PiContext == <<"PiContext">>
EContext == <<"EContext">>
ParenthesisContext(e) == <<"ParenthesisContext", e>>
\* tok is the operator token the context holds: ADD or SUB, MUL or DIV
AddContext(tok, l, r) == <<"AddContext", tok, l, r>>
MultiplyContext(tok, l, r) == <<"MultiplyContext", tok, l, r>>
ExponentContext(l, r) == <<"ExponentContext", l, r>>
EqContext(id, e) == <<"EqContext", id, e>>
ExprstatementContext(e) == <<"ExprstatementContext", e>>
LetContext(id, t, e) == <<"LetContext", id, t, e>>
PrintContext(e) == <<"PrintContext", e>>

\* the text of an INT token is a sequence of decimal digits
DigitChars == << "0", "1", "2", "3", "4", "5", "6", "7", "8", "9" >>
DigitValue(c) == (CHOOSE i \in 1..Len(DigitChars) : DigitChars[i] = c) - 1
\* n.parse::<f64>() of such a text
RECURSIVE ParseF64(_)
ParseF64(text) ==
    IF Len(text) = 0 THEN 0
    ELSE Len(DigitChars) * ParseF64(SubSeq(text, 1, Len(text) - 1))
             + DigitValue(text[Len(text)])

RECURSIVE visit(_, _)

visit_number(ctx, st) == Push(st, MkValue("F64", FNum(ParseF64(ctx[2]), 1)))
visit_e(ctx, st) == Push(st, MkValue("F64", ConstE))
visit_pi(ctx, st) == Push(st, MkValue("F64", ConstPI))
visit_id(ctx, st) ==
    IF ctx[2] \in DOMAIN st.vars THEN Push(st, st.vars[ctx[2]]) ELSE Abort(st, "UnwrapNone")
visit_parenthesis(ctx, st) == visit(ctx[2], st)

\* visit expr(0), visit expr(1), then r = pop, l = pop, push the result
VisitSecond(ctx, st) == IF st.panic # "none" THEN st ELSE visit(ctx, st)
PopTwoApply(op, st) ==
    IF st.panic # "none" THEN st
    ELSE IF Len(st.stack) = 0 THEN Abort(st, "UnwrapNone")
    ELSE IF Len(st.stack) = 1 THEN Abort(Drop(st), "UnwrapNone")
    ELSE PushOutcome(Drop(Drop(st)), ValueOp(op, st.stack[Len(st.stack) - 1], Top(st)))

\* mutant: the operands are popped in the other order
visit_add_swapped(ctx, st) ==
    PopTwoApply(IF ctx[2] = "ADD" THEN "Add" ELSE "Sub",
                VisitSecond(ctx[3], visit(ctx[4], st)))

visit_add(ctx, st) ==
    PopTwoApply(IF ctx[2] = "ADD" THEN "Add" ELSE "Sub",
                VisitSecond(ctx[4], visit(ctx[3], st)))
visit_multiply(ctx, st) ==
    PopTwoApply(IF ctx[2] = "MUL" THEN "Multiply" ELSE "Divide",
                VisitSecond(ctx[4], visit(ctx[3], st)))
visit_exponent(ctx, st) == PopTwoApply("Exponent", VisitSecond(ctx[3], visit(ctx[2], st)))

\* visit expr, v = stack.last(), vars.insert(id, *v).unwrap()
InsertLastUnwrap(id, st) ==
    IF st.panic # "none" THEN st
    ELSE IF Len(st.stack) = 0 THEN Abort(st, "UnwrapNone")
    ELSE IF id \in DOMAIN st.vars THEN [st EXCEPT !.vars = Insert(@, id, Top(st))]
    ELSE Abort([st EXCEPT !.vars = Insert(@, id, Top(st))], "UnwrapNone")
visit_eq(ctx, st) == InsertLastUnwrap(ctx[2], visit(ctx[3], st))

PopOr(st, popped) ==
    IF st.panic # "none" THEN st
    ELSE IF Len(st.stack) = 0 THEN Abort(st, "UnwrapNone")
    ELSE popped
visit_exprstatement(ctx, st) == PopOr(visit(ctx[2], st), Drop(visit(ctx[2], st)))
InsertPopped(id, st) == PopOr(st, [Drop(st) EXCEPT !.vars = Insert(@, id, Top(st))])
visit_let(ctx, st) == InsertPopped(ctx[2], visit(ctx[4], st))
PrintPopped(st) == PopOr(st, [Drop(st) EXCEPT !.out = Append(@, PrintLine(Top(st)))])
visit_print(ctx, st) == PrintPopped(visit(ctx[2], st))

\* the dispatch of self.visit on the kind of the context
visit(ctx, st) ==
    CASE ctx[1] = "NumberContext" -> visit_number(ctx, st)
      [] ctx[1] = "IdContext" -> visit_id(ctx, st)
      [] ctx[1] = "PiContext" -> visit_pi(ctx, st)
      [] ctx[1] = "EContext" -> visit_e(ctx, st)
      [] ctx[1] = "ParenthesisContext" -> visit_parenthesis(ctx, st)
      [] ctx[1] = "AddContext" -> visit_add(ctx, st)
      [] ctx[1] = "MultiplyContext" -> visit_multiply(ctx, st)
      [] ctx[1] = "ExponentContext" -> visit_exponent(ctx, st)
      [] ctx[1] = "EqContext" -> visit_eq(ctx, st)
      [] ctx[1] = "ExprstatementContext" -> visit_exprstatement(ctx, st)
      [] ctx[1] = "LetContext" -> visit_let(ctx, st)
      [] ctx[1] = "PrintContext" -> visit_print(ctx, st)

\* for statement in ctx.statement_all(): a panic unwinds out of the loop
RECURSIVE visit_s(_, _)
visit_s(statements, st) ==
    IF Len(statements) = 0 \/ st.panic # "none" THEN st
    ELSE visit_s(Tail(statements), visit(Head(statements), st))

(***************************************************************************)
(* The programs the statement loop is run on.                              *)
(***************************************************************************)
Names == {"x", "y"}
\* the text of the TYPE token of a let
DeclaredTypes == {"u64", "f64"}

\* the program main parses
ProgMain ==
    << Let("x", "u64", Binary("Add", Number(1), Number(1))),
       PrintStatement(Id("x")),
       ExprStatement(Eq("x", Binary("Add", Id("x"), Number(10)))),
       PrintStatement(Id("x")) >>

\* print(x = 5); print(x);
ProgAssignThenRead == << PrintStatement(Eq("x", Number(5))), PrintStatement(Id("x")) >>

\* print((x = 1) + (x = 2));
ProgAssignBoth ==
    << PrintStatement(Binary("Add", Parenthesis(Eq("x", Number(1))),
                                    Parenthesis(Eq("x", Number(2))))) >>

NamedPrograms == {ProgMain, ProgAssignThenRead, ProgAssignBoth}

Atoms == {Number(n) : n \in 0..MaxLit} \cup {Id(v) : v \in Names} \cup {PI, E}
AssignOperands == {Parenthesis(Eq(v, Number(n))) : v \in Names, n \in 1..MaxLit}
Operands == Atoms \cup AssignOperands
Binaries == {Binary(op, l, r) : op \in BinOps, l \in Operands, r \in Operands}
Assignments == {Eq(v, a) : v \in Names, a \in Atoms}
PlainExprs == Atoms \cup Binaries \cup Assignments
ProbeExprs == PlainExprs \cup {Parenthesis(e) : e \in PlainExprs}

ProbeStmts ==
    {PrintStatement(e) : e \in ProbeExprs}
    \cup {ExprStatement(e) : e \in PlainExprs}
    \cup {Let(v, t, e) : v \in Names, t \in DeclaredTypes, e \in Atoms \cup Assignments}
    \cup {Let("x", t, e) : t \in DeclaredTypes, e \in Binaries}

\* what binds x and y before a probe statement runs
SetupX == {<< >>, << Let("x", "f64", Number(1)) >>}
SetupY == {<< >>, << Let("y", "u64", Number(MaxLit)) >>}
ProbePrograms == {sx \o sy \o << s >> : sx \in SetupX, sy \in SetupY, s \in ProbeStmts}

\* every sequence of at most MaxStmts statements of a small pool
ShortStmts ==
    { Let("x", "u64", Number(1)),
      Let("y", "f64", Binary("Divide", Number(1), Number(MaxLit))),
      Let("x", "f64", Binary("Multiply", Id("x"), Id("y"))),
      PrintStatement(Id("x")),
      PrintStatement(Id("y")),
      PrintStatement(Number(MaxLit)),
      PrintStatement(Binary("Divide", Id("x"), Number(0))),
      PrintStatement(Eq("x", Number(MaxLit))),
      ExprStatement(Eq("x", Binary("Add", Id("x"), Number(1)))),
      ExprStatement(Eq("y", Id("x"))),
      ExprStatement(Binary("Exponent", Id("x"), Id("y"))) }
ShortPrograms == UNION {[1..n -> ShortStmts] : n \in 0..MaxStmts}

Programs == NamedPrograms \cup ProbePrograms \cup ShortPrograms

(***************************************************************************)
(* main: the statement loop.  The two timing lines main prints are kept    *)
(* as lines of stdout; the elapsed time in them is not modelled.           *)
(***************************************************************************)
ParsedLine == [by |-> "main", text |-> "Parsed code in ?ms"]
CheckedLine == [by |-> "main", text |-> "Checked code in ?ms"]

Current == EvalState(vars, stack, out, panic)

Init ==
    /\ program \in Programs
    /\ index = 1
    /\ vars = TS2GInit.vars
    /\ stack = TS2GInit.stack
    /\ out = << ParsedLine >>
    /\ pc = "running"
    /\ panic = "none"
    /\ prev = EvalState(TS2GInit.vars, TS2GInit.stack, << ParsedLine >>, "none")
    /\ overflowChecks \in BOOLEAN
    /\ lhs = NoValue
    /\ rhs = NoValue
    /\ applied = "none"
    /\ res = Ok(NoValue)

\* mutant: a panicking statement is skipped and the loop goes on
StepToContinue(after) ==
    /\ prev' = Current
    /\ vars' = after.vars
    /\ stack' = after.stack
    /\ out' = after.out
    /\ panic' = after.panic
    /\ pc' = "running"
    /\ index' = index + 1
    /\ UNCHANGED <<program, overflowChecks, lhs, rhs, applied, res>>

\* mutant: the loop does not move on after a statement that completes
StepToStay(after) ==
    /\ prev' = Current
    /\ vars' = after.vars
    /\ stack' = after.stack
    /\ out' = after.out
    /\ panic' = after.panic
    /\ pc' = IF after.panic = "none" THEN "running" ELSE "panicked"
    /\ index' = index
    /\ UNCHANGED <<program, overflowChecks, lhs, rhs, applied, res>>

\* one turn of `for statement in statements { ts2builder.visit_statement(statement) }`
StepTo(after) ==
    /\ prev' = Current
    /\ vars' = after.vars
    /\ stack' = after.stack
    /\ out' = after.out
    /\ panic' = after.panic
    /\ pc' = IF after.panic = "none" THEN "running" ELSE "panicked"
    /\ index' = IF after.panic = "none" THEN index + 1 ELSE index
    /\ UNCHANGED <<program, overflowChecks, lhs, rhs, applied, res>>
Step == StepTo(visit_statement(program[index], Current))

AtStatement(kind) ==
    pc = "running" /\ index <= Len(program) /\ program[index][1] = kind

ExecExprStatement == AtStatement("ExprStatement") /\ Step
ExecLet == AtStatement("Let") /\ Step
ExecPrint == AtStatement("Print") /\ Step

\* the loop is over: main prints the timing line and returns Ok(())
Finish ==
    /\ pc = "running"
    /\ index > Len(program)
    /\ pc' = "done"
    /\ out' = Append(out, CheckedLine)
    /\ UNCHANGED <<program, index, vars, stack, panic, prev, overflowChecks,
                   lhs, rhs, applied, res>>

Next == ExecExprStatement \/ ExecLet \/ ExecPrint \/ Finish

Spec == Init /\ [][Next]_allVars

\* The runs whose termination is checked: main's program and every sequence
\* of at most MaxStmts statements of a let, a print and an assignment, which
\* complete or panic according to what came before them.
LiveStmts ==
    { Let("x", "u64", Number(1)),
      PrintStatement(Id("x")),
      ExprStatement(Eq("x", Number(MaxLit))) }
LivePrograms == NamedPrograms \cup UNION {[1..n -> LiveStmts] : n \in 0..MaxStmts}
InitFair ==
    /\ program \in LivePrograms
    /\ index = 1
    /\ vars = TS2GInit.vars
    /\ stack = TS2GInit.stack
    /\ out = << ParsedLine >>
    /\ pc = "running"
    /\ panic = "none"
    /\ prev = EvalState(TS2GInit.vars, TS2GInit.stack, << ParsedLine >>, "none")
    /\ overflowChecks \in BOOLEAN
    /\ lhs = NoValue
    /\ rhs = NoValue
    /\ applied = "none"
    /\ res = Ok(NoValue)

\* main is one sequential thread: while a step of it is possible it is taken
SpecFair == InitFair /\ [][Next]_allVars /\ WF_allVars(Next)

(***************************************************************************)
(* SpecValue: one binary operation of Value on two operands of any kinds.  *)
(***************************************************************************)
IntSamples(t) ==
    (0..MaxPayload)
    \cup (IF IsSigned(t) THEN (0 - MaxPayload)..0 ELSE {})
    \cup (IF Narrow(t) THEN {MinOf(t), MaxOf(t)} ELSE {})
FloatSamples(t) ==
    {FNum(n, 1) : n \in 0..MaxPayload}
    \cup {FNum(0 - 1, 1), FNum(1, 2), NegZero, Inf, NegInf, NaN}
    \cup (IF t = "F64" THEN {ConstPI, ConstE} ELSE {})
ValueSamples ==
    UNION {IF IsFloat(t) THEN {MkValue(t, p) : p \in FloatSamples(t)}
           ELSE {MkValue(t, IntP(x)) : x \in IntSamples(t)} : t \in NumType}

\* FALSE for the operands whose result is outside TLC's integers: a product
\* above 2^31, and in a 32- or 64-bit kind a wrap below zero and a cast that
\* saturates
WithinModel(op, l, r) ==
    \/ l.t # r.t
    \/ IsFloat(l.t)
    \/ /\ op = "Multiply" => (r.v.n = 0 \/ Abs(l.v.n) <= 2147483647 \div Abs(r.v.n))
       /\ op = "Sub" => (Narrow(l.t) \/ IsSigned(l.t) \/ overflowChecks \/ l.v.n >= r.v.n)
       /\ op = "Exponent" => \/ Narrow(l.t)
                             \/ /\ ~(l.v.n = 0 /\ r.v.n < 0)
                                /\ PowMag(Abs(l.v.n), Abs(r.v.n)) # TooBig

InitValue ==
    /\ program = << >>
    /\ index = 1
    /\ vars = TS2GInit.vars
    /\ stack = TS2GInit.stack
    /\ out = << >>
    /\ pc = "value"
    /\ panic = "none"
    /\ prev = TS2GInit
    /\ overflowChecks \in BOOLEAN
    /\ lhs \in ValueSamples
    /\ rhs \in ValueSamples
    /\ applied = "none"
    /\ res = Ok(NoValue)

Ready(op) == applied = "none" /\ WithinModel(op, lhs, rhs) = TRUE

Apply(op) ==
    /\ applied' = op
    /\ res' = ValueOp(op, lhs, rhs)
    /\ UNCHANGED <<program, index, vars, stack, out, pc, panic, prev,
                   overflowChecks, lhs, rhs>>

ApplyAdd == Ready("Add") /\ Apply("Add")
ApplySub == Ready("Sub") /\ Apply("Sub")
ApplyMul == Ready("Multiply") /\ Apply("Multiply")
ApplyDiv == Ready("Divide") /\ Apply("Divide")
ApplyPowf == Ready("Exponent") /\ Apply("Exponent")

NextValue == ApplyAdd \/ ApplySub \/ ApplyMul \/ ApplyDiv \/ ApplyPowf

SpecValue == InitValue /\ [][NextValue]_allVars

(***************************************************************************)
(* Properties.                                                             *)
(***************************************************************************)
\* the lines the Print statements wrote, and their texts
PrintLines(o) == SelectSeq(o, LAMBDA l : l.by = "print")
PrintTexts(o) == [i \in 1..Len(PrintLines(o)) |-> PrintLines(o)[i].text]

\* A statement has just been executed (main has not printed its last line
\* yet); LastStmt is that statement, run from prev.
Executed == pc = "panicked" \/ (pc = "running" /\ index > 1)
LastStmt == IF pc = "panicked" THEN program[index] ELSE program[index - 1]
LastKind == LastStmt[1]
LastExpr == ExprOf(LastStmt)

\* the number of Print statements among the first n statements
PrintsBefore(n) == Cardinality({i \in 1..n : program[i][1] = "Print"})

F64Of(n) == MkValue("F64", FNum(n, 1))

\* C1: the run of `let x:u64=1+1; print(x); x=x+10; print(x);` never aborts
\* and, once over, has written exactly the two Print lines 2 and 12.
C1_MainProgramPrints2Then12 ==
    program = ProgMain =>
        /\ pc # "panicked"
        /\ pc = "done" => PrintTexts(out) = << "2", "12" >>

C1_Witness == program = ProgMain /\ pc = "done" /\ Len(PrintLines(out)) = 2

\* C2 (as claimed): the run of `print(x = 5); print(x);` ends cleanly having
\* written the two lines 5 and 5.
C2_AssignThenReadPrints5Twice ==
    (program = ProgAssignThenRead /\ pc # "running") =>
        (pc = "done" /\ PrintTexts(out) = << "5", "5" >>)

\* C3 (as claimed): an assignment statement `name = e` ends as the statement
\* `let name = e` would from the same state: the same Environment and no
\* error that the let does not have.
C3_AssignmentIsDefine ==
    (Executed /\ LastKind = "ExprStatement" /\ LastExpr[1] = "Eq") =>
        LET asLet == visit_statement(Let(LastExpr[2], "f64", LastExpr[3]), prev)
        IN  vars = asLet.vars /\ panic = asLet.panic

\* C4 (as claimed): a binary node's Environment is the one its right operand
\* leaves when evaluated after its left operand, and when both operands
\* assign the same name the node leaves that name bound to the right
\* operand's value, as `print((x = 1) + (x = 2))` leaves x bound to 2.
C4_LeftThenRight ==
    (Executed /\ LastExpr[1] \in BinOps) =>
        LET l == LastExpr[2]
            r == LastExpr[3]
            afterBoth == VisitRight(r, visit_expr(l, prev))
        IN  /\ vars = afterBoth.vars
            /\ (l \in AssignOperands /\ r \in AssignOperands /\ l[2][2] = r[2][2]) =>
                  /\ r[2][2] \in DOMAIN vars
                  /\ vars[r[2][2]] = F64Of(r[2][3][2])

\* C5: a statement whose expression is an identifier no let or assignment has
\* bound aborts the run with the failed-unwrap panic, and pushes, binds and
\* prints nothing; so does a binary node whose right operand is such an
\* identifier, after its left operand has been evaluated.
C5_UnboundIdentifierAborts ==
    /\ (Executed /\ LastExpr[1] = "Id" /\ LastExpr[2] \notin DOMAIN prev.vars) =>
          /\ pc = "panicked"
          /\ panic = "UnwrapNone"
          /\ stack = prev.stack
          /\ vars = prev.vars
          /\ out = prev.out
    /\ (Executed /\ LastExpr[1] \in BinOps /\ LastExpr[3][1] = "Id") =>
          LET afterLeft == visit_expr(LastExpr[2], prev)
          IN  (afterLeft.panic = "none" /\ LastExpr[3][2] \notin DOMAIN afterLeft.vars) =>
                  /\ pc = "panicked"
                  /\ panic = "UnwrapNone"
                  /\ stack = afterLeft.stack
                  /\ vars = afterLeft.vars
                  /\ out = prev.out

C5_Witness ==
    /\ pc = "panicked"
    /\ LastStmt = PrintStatement(Id("y"))
    /\ "x" \in DOMAIN vars
    /\ "y" \notin DOMAIN vars

\* C6: each of add, sub, mul, div and powf, applied to operands whose kind
\* tags differ, panics with the type mismatch and yields no value, whatever
\* the payloads; applied to operands of one kind it never panics with it.
C6_TagsComparedFirst ==
    applied # "none" =>
        /\ lhs.t # rhs.t => res = Panicked("TypeMismatch")
        /\ lhs.t = rhs.t => res.panic # "TypeMismatch"

C6_Witness ==
    /\ applied = "Divide"
    /\ lhs.t = "U8"
    /\ rhs = MkValue("I8", IntP(0))
    /\ res.panic = "TypeMismatch"

\* C7: once a statement has panicked nothing more runs: the loop position,
\* the Environment, the stack and the output never change again; and the
\* statement that panics writes no line, so the Print lines written are those
\* of the Print statements before it, one each.
C7_Step ==
    /\ panic # "none" => UNCHANGED <<index, vars, stack, out, pc, panic>>
    /\ panic' # "none" =>
          /\ pc' = "panicked"
          /\ out' = out
          /\ Len(PrintLines(out')) = PrintsBefore(index' - 1)
C7_FirstErrorEndsRun == [][C7_Step]_allVars

C7_Witness ==
    /\ pc = "panicked"
    /\ index = 2
    /\ Len(program) = 3
    /\ program[3][1] = "Print"
    /\ Len(PrintLines(out)) = 1

\* C8: a statement over Parenthesis(e) ends in the state the same statement
\* over e ends in from the same state: the same Environment, stack, output
\* and panic.
WithExpr(s, e) == [s EXCEPT ![Len(s)] = e]
C8_ParenthesisTransparent ==
    (Executed /\ LastExpr[1] = "Parenthesis") =>
        Current = visit_statement(WithExpr(LastStmt, LastExpr[2]), prev)

C8_Witness ==
    /\ Executed
    /\ LastStmt = PrintStatement(Parenthesis(Eq("x", Number(2))))
    /\ pc = "running"
    /\ vars["x"] = F64Of(2)

\* C10: a Print statement that completes appends exactly one line, the text
\* of the value its expression evaluated to; every other statement, and a
\* statement that panics, leaves the output as it was.
C10_Step ==
    (pc = "running" /\ index <= Len(program)) =>
        IF program[index][1] = "Print" /\ panic' = "none"
        THEN /\ Len(out') = Len(out) + 1
             /\ SubSeq(out', 1, Len(out)) = out
             /\ out'[Len(out')] =
                   PrintLine(Top(visit_expr(ExprOf(program[index]), Current)))
        ELSE out' = out
C10_OneLinePerPrint == [][C10_Step]_allVars

C10_Witness ==
    /\ pc = "done"
    /\ Len(program) = 3
    /\ program[1][1] = "Let"
    /\ program[2][1] = "Print"
    /\ program[3][1] = "ExprStatement"
    /\ Len(PrintLines(out)) = 1

\* C11: a let statement ends in the same state whatever kind it declares, and
\* when it completes the name is bound to the value its expression evaluated
\* to, kind included; the declared kind is never read.
C11_DeclaredKindInert ==
    (Executed /\ LastKind = "Let") =>
        /\ \A t \in DeclaredTypes :
              Current = visit_statement(Let(LastStmt[2], t, LastStmt[4]), prev)
        /\ pc = "running" =>
              /\ LastStmt[2] \in DOMAIN vars
              /\ vars[LastStmt[2]] = Top(visit_expr(LastStmt[4], prev))

C11_Witness ==
    /\ Executed
    /\ pc = "running"
    /\ LastStmt = Let("x", "u64", Number(1))
    /\ vars["x"].t = "F64"

\* The bindings an expression writes, in the order it writes them: one
\* <<name, value>> for each Assignment node whose operand completed.
RECURSIVE WritesOf(_, _)
WritesAfter(r, st) == IF st.panic # "none" THEN << >> ELSE WritesOf(r, st)
WriteOfTop(id, st) == IF st.panic # "none" THEN << >> ELSE << <<id, Top(st)>> >>
WritesOf(expr, st) ==
    CASE expr[1] = "Parenthesis" -> WritesOf(expr[2], st)
      [] expr[1] \in BinOps ->
            WritesOf(expr[2], st) \o WritesAfter(expr[3], visit_expr(expr[2], st))
      [] expr[1] = "Eq" ->
            WritesOf(expr[3], st) \o WriteOfTop(expr[2], visit_expr(expr[3], st))
      [] OTHER -> << >>
\* a let writes last, after the assignments of its expression
StatementWrites(s, st) ==
    WritesOf(ExprOf(s), st)
        \o (IF s[1] = "Let" THEN WriteOfTop(s[2], visit_expr(ExprOf(s), st)) ELSE << >>)
Written(ws) == {ws[i][1] : i \in 1..Len(ws)}
LastWrite(ws, name) ==
    ws[CHOOSE i \in 1..Len(ws) :
          /\ ws[i][1] = name
          /\ \A j \in (i + 1)..Len(ws) : ws[j][1] # name][2]

\* C12: after a statement that completes, the Environment binds exactly the
\* names bound before it and the names it wrote; a name it wrote is bound to
\* the value of the last let or assignment to it, every other name to the
\* value it had; and the lookup of a bound name yields the value bound.
C12_LastWriteWins ==
    (Executed /\ pc = "running") =>
        /\ DOMAIN vars = (DOMAIN prev.vars) \cup Written(StatementWrites(LastStmt, prev))
        /\ \A n \in DOMAIN vars :
              vars[n] = IF n \in Written(StatementWrites(LastStmt, prev))
                        THEN LastWrite(StatementWrites(LastStmt, prev), n)
                        ELSE prev.vars[n]
        /\ (LastKind = "Print" /\ LastExpr[1] = "Id") =>
              out[Len(out)] = PrintLine(prev.vars[LastExpr[2]])

C12_Witness ==
    /\ Executed
    /\ pc = "running"
    /\ LastStmt = ProgAssignBoth[1]
    /\ prev.vars["x"] = F64Of(1)
    /\ vars["x"] = F64Of(2)

\* C13: the statement index never goes back; a step at a statement either
\* moves on to the next statement or ends the run with a panic at it; once
\* the run is over no step is taken; and every run is eventually over, after
\* its last statement or at the panic.
C13_Step ==
    /\ pc = "running"
    /\ index' \in {index, index + 1}
    /\ index <= Len(program) =>
          \/ pc' = "running" /\ panic' = "none" /\ index' = index + 1
          \/ pc' = "panicked" /\ panic' # "none" /\ index' = index
    /\ index > Len(program) => pc' = "done" /\ index' = index
C13_Terminates ==
    /\ [][C13_Step]_allVars
    /\ <>[](\/ pc = "done" /\ index = Len(program) + 1
            \/ pc = "panicked" /\ index <= Len(program))

C13_Witness ==
    /\ pc = "done"
    /\ Len(program) = MaxStmts
    /\ index = MaxStmts + 1

\* C14: when a statement over Assignment(name, e) completes, what the
\* statement receives (what a print writes, what a let binds) is the value
\* of e and name is bound to it; and when a binary node whose left operand
\* is (name = n) completes, its result is the operation applied to n and
\* the right operand's value, and name is bound to n unless the right
\* operand assigns it again.
C14_AssignmentYieldsValue ==
    /\ (Executed /\ pc = "running" /\ LastExpr[1] = "Eq") =>
          LET val == Top(visit_expr(LastExpr[3], prev))
          IN  /\ vars[LastExpr[2]] = val
              /\ LastKind = "Print" => out[Len(out)] = PrintLine(val)
              /\ LastKind = "Let" => vars[LastStmt[2]] = val
    /\ (Executed /\ pc = "running" /\ LastKind = "Print"
            /\ LastExpr[1] \in BinOps /\ LastExpr[2] \in AssignOperands) =>
          LET name == LastExpr[2][2][2]
              val == F64Of(LastExpr[2][2][3][2])
              right == Top(visit_expr(LastExpr[3], visit_expr(LastExpr[2], prev)))
          IN  /\ out[Len(out)] = PrintLine(ValueOp(LastExpr[1], val, right).val)
              /\ (LastExpr[3] \notin AssignOperands \/ LastExpr[3][2][2] # name) =>
                    vars[name] = val

C14_Witness ==
    /\ Executed
    /\ pc = "running"
    /\ LastStmt = PrintStatement(Binary("Add", Parenthesis(Eq("x", Number(2))), Id("x")))
    /\ prev.vars["x"] = F64Of(1)
    /\ vars["x"] = F64Of(2)
    /\ out[Len(out)].text = "4"

\* whether an expression contains an Assignment node
RECURSIVE HasEq(_)
HasEq(expr) ==
    CASE expr[1] = "Eq" -> TRUE
      [] expr[1] = "Parenthesis" -> HasEq(expr[2])
      [] expr[1] \in BinOps -> HasEq(expr[2]) \/ HasEq(expr[3])
      [] OTHER -> FALSE

\* C15: evaluating an expression with no Assignment node in it leaves the
\* Environment as it was, whether it completes or panics; and so does a
\* print or an expression statement over such an expression.
C15_NoAssignmentNoWrite ==
    (Executed /\ ~HasEq(LastExpr)) =>
        /\ visit_expr(LastExpr, prev).vars = prev.vars
        /\ LastKind \in {"Print", "ExprStatement"} => vars = prev.vars

C15_Witness ==
    /\ pc = "panicked"
    /\ LastStmt = ExprStatement(Binary("Exponent", Id("x"), Id("y")))
    /\ DOMAIN vars = {"x"}
    /\ vars = prev.vars

AllF64(stk) == \A i \in 1..Len(stk) : stk[i].t = "F64"

\* C16: in every state of a run each value on the stack and each value bound
\* in the Environment has kind F64, also the value a statement's expression
\* leaves on the stack before the statement pops it; and no run panics with
\* the kind mismatch of the binary operations.
C16_AllValuesF64 ==
    /\ AllF64(stack)
    /\ \A n \in DOMAIN vars : vars[n].t = "F64"
    /\ panic # "TypeMismatch"
    /\ Executed => AllF64(visit_expr(LastExpr, prev).stack)

C16_Witness ==
    /\ program = ProgAssignThenRead
    /\ pc = "panicked"
    /\ Len(stack) = 1
    /\ stack[1] = F64Of(5)
    /\ vars["x"] = F64Of(5)

\* C17: between statements the stack is empty; an expression that completes
\* leaves the stack one deeper than it found it, and the two operands of a
\* binary node that complete leave it two deeper, so that every pop finds
\* its value: a statement panics only inside its expression, never at its
\* own pop.
C17_StackBalanced ==
    /\ pc \in {"running", "done"} => stack = << >>
    /\ Executed =>
          /\ prev.stack = << >>
          /\ visit_expr(LastExpr, prev).panic = "none" =>
                /\ Len(visit_expr(LastExpr, prev).stack) = Len(prev.stack) + 1
                /\ pc = "running"
          /\ pc = "panicked" => visit_expr(LastExpr, prev).panic # "none"
    /\ (Executed /\ LastExpr[1] \in BinOps) =>
          LET both == VisitRight(LastExpr[3], visit_expr(LastExpr[2], prev))
          IN  both.panic = "none" => Len(both.stack) = Len(prev.stack) + 2

C17_Witness ==
    /\ Executed
    /\ pc = "running"
    /\ LastStmt = ExprStatement(Eq("x", Binary("Add", Id("x"), Number(1))))
    /\ Len(visit_expr(LastExpr, prev).stack) = 1
    /\ stack = << >>

\* The parse tree of a program given as an AST: the same nodes in the same
\* places, a literal as the digits of its INT token, Add and Sub as an
\* AddContext holding ADD or SUB, Multiply and Divide as a MultiplyContext
\* holding MUL or DIV.
RECURSIVE DigitsOf(_)
DigitsOf(n) ==
    IF n < Len(DigitChars) THEN << DigitChars[n + 1] >>
    ELSE DigitsOf(n \div Len(DigitChars)) \o << DigitChars[(n % Len(DigitChars)) + 1] >>
RECURSIVE TreeOf(_)
TreeOf(node) ==
    CASE node[1] = "Number" -> NumberContext(DigitsOf(node[2]))
      [] node[1] = "Id" -> IdContext(node[2])
      [] node[1] = "PI" -> PiContext
      [] node[1] = "E" -> EContext
      [] node[1] = "Parenthesis" -> ParenthesisContext(TreeOf(node[2]))
      [] node[1] = "Add" -> AddContext("ADD", TreeOf(node[2]), TreeOf(node[3]))
      [] node[1] = "Sub" -> AddContext("SUB", TreeOf(node[2]), TreeOf(node[3]))
      [] node[1] = "Multiply" -> MultiplyContext("MUL", TreeOf(node[2]), TreeOf(node[3]))
      [] node[1] = "Divide" -> MultiplyContext("DIV", TreeOf(node[2]), TreeOf(node[3]))
      [] node[1] = "Exponent" -> ExponentContext(TreeOf(node[2]), TreeOf(node[3]))
      [] node[1] = "Eq" -> EqContext(node[2], TreeOf(node[3]))
      [] node[1] = "ExprStatement" -> ExprstatementContext(TreeOf(node[2]))
      [] node[1] = "Let" -> LetContext(node[2], node[3], TreeOf(node[4]))
      [] node[1] = "Print" -> PrintContext(TreeOf(node[2]))
TreesOf(prog) == [i \in 1..Len(prog) |-> TreeOf(prog[i])]

\* C18: the visitor of grammar/mod.rs, run on the parse tree of a statement
\* from the state the evaluator of main.rs ran the statement from, ends in
\* the state the evaluator ended in: the same stack, Environment, output and
\* panic; and over a whole program visit_s ends with the Environment, stack,
\* Print lines and panic that main's loop ends with.
C18_VisitorsAgree ==
    /\ Executed => visit(TreeOf(LastStmt), prev) = Current
    /\ pc \in {"done", "panicked"} =>
          LET end == visit_s(TreesOf(program), TS2GInit)
          IN  /\ end.vars = vars
              /\ end.stack = stack
              /\ end.panic = panic
              /\ end.out = PrintLines(out)

C18_Witness ==
    /\ Executed
    /\ pc = "running"
    /\ LastStmt = PrintStatement(Binary("Sub", Number(1), Parenthesis(Eq("x", Number(2)))))
    /\ visit(TreeOf(LastStmt), prev).out = out
    /\ out[Len(out)].text = "-1"

\* whether an expression contains an Identifier node
RECURSIVE HasId(_)
HasId(expr) ==
    CASE expr[1] = "Id" -> TRUE
      [] expr[1] \in {"Parenthesis", "Eq"} -> HasId(expr[Len(expr)])
      [] expr[1] \in BinOps -> HasId(expr[2]) \/ HasId(expr[3])
      [] OTHER -> FALSE

\* C19: a Divide whose two operands have been evaluated completes, whatever
\* the right operand's value, zero included: it leaves an F64 value and the
\* loop goes on to the next statement; and a run panics only with the failed
\* unwrap, in a statement that looks up or assigns a name.
C19_F64DivideNeverFatal ==
    /\ (Executed /\ LastExpr[1] = "Divide") =>
          LET both == VisitRight(LastExpr[3], visit_expr(LastExpr[2], prev))
          IN  both.panic = "none" =>
                  /\ pc = "running"
                  /\ visit_expr(LastExpr, prev).panic = "none"
                  /\ Top(visit_expr(LastExpr, prev)).t = "F64"
    /\ pc = "panicked" =>
          /\ panic = "UnwrapNone"
          /\ HasId(LastExpr) \/ HasEq(LastExpr)

C19_Witness ==
    /\ Executed
    /\ pc = "running"
    /\ LastStmt = PrintStatement(Binary("Divide", Id("x"), Number(0)))
    /\ prev.vars["x"] = F64Of(1)
    /\ out[Len(out)].text = "inf"
    /\ index <= Len(program)

====
